---- MODULE Spec2Model ----
(***************************************************************************)
(* Model of the beauty-contest bot (src/bot.py): the per-user conversation *)
(* registries, the SQLite repository (suggestions, photos, user_votes,     *)
(* tournament_settings) and the handlers that moderate suggestions, run    *)
(* the tournament, record votes and delete contestants.                    *)
(*                                                                         *)
(* Handlers run on the worker threads of the TeleBot instance, each on its *)
(* own sqlite3 connection.  A handler is cut where another connection's    *)
(* commit can fall between two of its statements: after every SELECT that  *)
(* is followed by a write.  The statements from the first write up to the  *)
(* commit are one step, because the connection holds the database's write  *)
(* lock from its first INSERT/UPDATE/DELETE until it commits or rolls      *)
(* back, and readers see only committed rows.                              *)
(***************************************************************************)
EXTENDS Integers, Sequences, FiniteSets, Bags, TLC

(* ------------------------------------------------------------------ *)
(* Program constants                                                  *)
(* ------------------------------------------------------------------ *)
ADMIN_ID == 1758948212

START == "start"
WAITING_NAME == "waiting_name"
WAITING_MEDIA == "waiting_media"
PREVIEW_SUBMISSION == "preview_submission"
WAITING_VOTES_COUNT == "waiting_votes_count"
WAITING_TOURNAMENT_TIME == "waiting_tournament_time"

\* start_new_tournament inserts (15, 24) as threshold and duration
DEFAULT_REQUIRED_VOTES == 15
DEFAULT_DURATION == 24

\* start_new_tournament: participants_count < 2
MIN_PARTICIPANTS == 2

\* handle_name: len(name) < 2 or len(name) > 50
MIN_NAME_LEN == 2
MAX_NAME_LEN == 50

(* ------------------------------------------------------------------ *)
(* Bounds of the model                                                *)
(* ------------------------------------------------------------------ *)
NumOtherUsers == 1
MaxSuggestions == 2
MaxTournaments == 2

OtherUsers == 1..NumOtherUsers
Users == {ADMIN_ID} \cup OtherUsers

\* The worker threads that run the handlers: bot is built with the pool's
\* default size.
NUM_THREADS == 2

(* ------------------------------------------------------------------ *)
(* Message texts: a text is a sequence of characters, a character is  *)
(* a token naming its code point.                                     *)
(* ------------------------------------------------------------------ *)
LatinLower == {"a", "n", "o", "b", "c", "d", "e", "i", "l", "m", "p", "r", "s", "t"}
LatinUpper == {"A", "B"}
CyrLower == {"cyr_a", "cyr_b", "cyr_c", "cyr_ch", "cyr_d", "cyr_e",
             "cyr_f", "cyr_g", "cyr_i", "cyr_k", "cyr_l", "cyr_m",
             "cyr_n", "cyr_o", "cyr_p", "cyr_r", "cyr_s", "cyr_sch",
             "cyr_soft", "cyr_t", "cyr_u", "cyr_v", "cyr_yo", "cyr_zh"}
CyrUpper == {"CYR_A", "CYR_N", "CYR_O", "CYR_P", "CYR_S", "CYR_T",
             "CYR_YO"}
Digits == {"0", "1", "5", "6", "8", "9"}
Whitespace == {" ", "TAB"}
Hyphen == {"-"}
\* characters outside the class of handle_name's regular expression
OtherChars == {"_", "e_acute", "X_MARK", "/", "!", "@", "+", "PLUS_SIGN", "MASKS", "TROPHY",
               "CHART", "CROWN", "WRENCH"}

\* str.lower() on one character
LowerChar(c) ==
    CASE c = "A" -> "a"
      [] c = "B" -> "b"
      [] c = "CYR_A" -> "cyr_a"
      [] c = "CYR_N" -> "cyr_n"
      [] c = "CYR_O" -> "cyr_o"
      [] c = "CYR_P" -> "cyr_p"
      [] c = "CYR_S" -> "cyr_s"
      [] c = "CYR_T" -> "cyr_t"
      [] c = "CYR_YO" -> "cyr_yo"
      [] OTHER -> c

Lower(t) == [i \in 1..Len(t) |-> LowerChar(t[i])]

RECURSIVE LStrip(_)
LStrip(t) == IF t # <<>> /\ Head(t) \in Whitespace THEN LStrip(Tail(t)) ELSE t

RECURSIVE RStrip(_)
RStrip(t) ==
    IF t # <<>> /\ t[Len(t)] \in Whitespace
    THEN RStrip(SubSeq(t, 1, Len(t) - 1))
    ELSE t

\* str.strip()
Strip(t) == RStrip(LStrip(t))

\* "❌ отмена", the lower-cased caption of the cancel button
CANCEL_LOWER == <<"X_MARK", " ", "cyr_o", "cyr_t", "cyr_m", "cyr_e", "cyr_n", "cyr_a">>

\* re.match(r"^[а-яА-ЯёЁa-zA-Z0-9\s-]+$", name, re.UNICODE)
NameCharClass ==
    CyrLower \cup CyrUpper \cup LatinLower \cup LatinUpper \cup Digits
        \cup Whitespace \cup Hyphen

NameMatches(name) ==
    /\ Len(name) >= 1
    /\ \A i \in 1..Len(name) : name[i] \in NameCharClass

(* ------------------------------------------------------------------ *)
(* State                                                              *)
(* ------------------------------------------------------------------ *)
VARIABLES
    user_states,          \* dict user id -> state tag
    user_data,            \* dict user id -> data bag (dict field -> value)
    ALLOWED_USERS,        \* the users check_subscription has let in
    suggestions,          \* table suggestions, row id = index
    photos,               \* table photos: the rows present
    photos_seq,           \* AUTOINCREMENT counter of table photos
    created_from,         \* history: photo id -> the suggestion it was made from
    user_votes,           \* table user_votes: its rows
    tournament_settings,  \* table tournament_settings, row id = index
    threads,              \* bag of the handlers in flight: position and locals
    last_vote,            \* history: the last vote callback and its answer
    cast,                 \* history: the (voter, contestant) pairs of the vote
                          \* callbacks handled with a tournament active and the
                          \* contestant approved
    last_pair,            \* history: the last start_voting call, its voter and
                          \* the contestants it presented
    completion,           \* history: the last check_tournament_completion call
    refused,              \* history: the last callback answered "no access"
    is_running,           \* KeepAliveService.is_running
    tasks,                \* the threads start() has created, in order: where
                          \* each stands in _keep_alive_task
    joining               \* stop() waits in thread.join

vars == <<user_states, user_data, ALLOWED_USERS, suggestions, photos, photos_seq,
          created_from, user_votes, tournament_settings, threads, last_vote, cast,
          last_pair, completion, refused, is_running, tasks, joining>>

\* the keep-alive service
keep_alive == <<is_running, tasks, joining>>

\* KeepAliveService.__init__: not running, no thread
NotStarted ==
    /\ is_running = FALSE
    /\ tasks = <<>>
    /\ joining = FALSE

conv == <<user_states, user_data>>
db == <<suggestions, photos, photos_seq, created_from, user_votes, tournament_settings>>

\* what the handlers give back besides their effect on the state
out == <<last_vote, cast, last_pair, completion, refused>>

\* the same without the record of the refused callbacks
seen == <<last_vote, cast, last_pair, completion>>

NoVote == [text |-> "none", active |-> FALSE, repeat |-> FALSE]
NoPair == [voter |-> 0, ids |-> {}]
NoCompletion == [tick |-> FALSE, active |-> FALSE, rows |-> 0, winner |-> 0]
NoRefusal == [user |-> 0, op |-> "none"]

\* get_user_state
get_user_state(user_id) ==
    IF user_id \in DOMAIN user_states THEN user_states[user_id] ELSE START

\* the dict d with d[k] = v
DictSet(d, k, v) == [x \in DOMAIN d \cup {k} |-> IF x = k THEN v ELSE d[x]]

\* d.pop(k, None)
DictPop(d, k) == [x \in DOMAIN d \ {k} |-> d[x]]

EmptyDict == [x \in {} |-> 0]

\* The database after init_db on a new file, nobody in a conversation.
Init ==
    /\ user_states = EmptyDict
    /\ user_data = EmptyDict
    /\ ALLOWED_USERS = {ADMIN_ID}
    /\ suggestions = <<>>
    /\ photos = {}
    /\ photos_seq = 0
    /\ created_from = <<>>
    /\ user_votes = <<>>
    /\ tournament_settings = <<>>
    /\ threads = EmptyBag
    /\ last_vote = NoVote
    /\ cast = {}
    /\ last_pair = NoPair
    /\ completion = NoCompletion
    /\ refused = NoRefusal
    /\ NotStarted

(* ------------------------------------------------------------------ *)
(* Queries on the tables                                              *)
(* ------------------------------------------------------------------ *)
\* SELECT id FROM tournament_settings WHERE is_active = 1
ActiveTournaments ==
    {i \in 1..Len(tournament_settings) : tournament_settings[i].is_active = 1}

\* SELECT COUNT(*) FROM photos WHERE approved = 1
ApprovedPhotos == {p \in photos : p.approved = 1}

PhotoIds == {p.id : p \in photos}

\* check_subscription: the stub lets everybody in and records the user
check_subscription(user_id) == ALLOWED_USERS \cup {user_id}


\* a handler is run by a worker thread that is free
FreeWorker == BagCardinality(threads) < NUM_THREADS


\* a handler in flight: where it stands, and its locals
Frame(pc, act, id) == [pc |-> pc, act |-> act, id |-> id]

InFlight == BagToSet(threads)

\* the handler pauses before its next statement
Begin(r) == threads' = threads (+) SetToBag({r})
\* the handler in flight as r goes on to r2
Move(r, r2) == threads' = (threads (-) SetToBag({r})) (+) SetToBag({r2})
\* the handler in flight as r returns
Finish(r) == threads' = threads (-) SetToBag({r})

(* ------------------------------------------------------------------ *)
(* Submission workflow                                                *)
(* ------------------------------------------------------------------ *)
\* cancel_proposal / cancel_proposal_callback: state START, bag dropped
CancelConv(user_id) ==
    /\ user_states' = DictSet(user_states, user_id, START)
    /\ user_data' = DictPop(user_data, user_id)

\* start_proposal without the check of the user's state
start_proposal_always(user_id) ==
    /\ FreeWorker
    /\ ALLOWED_USERS' = check_subscription(user_id)
    /\ user_states' = DictSet(user_states, user_id, WAITING_NAME)
    /\ user_data' = DictSet(user_data, user_id, EmptyDict)
    /\ UNCHANGED <<db, threads, out, keep_alive>>

\* /propose, or the menu button routed by handle_text
start_proposal(user_id) ==
    /\ FreeWorker
    /\ ALLOWED_USERS' = check_subscription(user_id)
    /\ IF get_user_state(user_id) # START
       THEN UNCHANGED conv
       ELSE /\ user_states' = DictSet(user_states, user_id, WAITING_NAME)
            /\ user_data' = DictSet(user_data, user_id, EmptyDict)
    /\ UNCHANGED <<db, threads, out, keep_alive>>

\* handle_name storing the text as it was sent, not its stripped form
handle_name_verbatim(user_id, text) ==
    /\ FreeWorker
    /\ get_user_state(user_id) = WAITING_NAME
    /\ ALLOWED_USERS' = check_subscription(user_id)
    /\ LET name == Strip(text) IN
       IF Lower(name) = CANCEL_LOWER
       THEN CancelConv(user_id)
       ELSE IF Len(name) < MIN_NAME_LEN \/ Len(name) > MAX_NAME_LEN
       THEN UNCHANGED conv
       ELSE IF ~NameMatches(name)
       THEN UNCHANGED conv
       ELSE IF user_id \notin DOMAIN user_data
       THEN UNCHANGED conv
       ELSE /\ user_data' =
                DictSet(user_data, user_id, DictSet(user_data[user_id], "name", text))
            /\ user_states' = DictSet(user_states, user_id, WAITING_MEDIA)
    /\ UNCHANGED <<db, threads, out, keep_alive>>

\* handle_name without the check of the name's length
handle_name_unbounded(user_id, text) ==
    /\ FreeWorker
    /\ get_user_state(user_id) = WAITING_NAME
    /\ ALLOWED_USERS' = check_subscription(user_id)
    /\ LET name == Strip(text) IN
       IF Lower(name) = CANCEL_LOWER
       THEN CancelConv(user_id)
       ELSE IF ~NameMatches(name)
       THEN UNCHANGED conv
       ELSE IF user_id \notin DOMAIN user_data
       THEN UNCHANGED conv
       ELSE /\ user_data' =
                DictSet(user_data, user_id, DictSet(user_data[user_id], "name", name))
            /\ user_states' = DictSet(user_states, user_id, WAITING_MEDIA)
    /\ UNCHANGED <<db, threads, out, keep_alive>>

\* any text message of a user in WAITING_NAME
handle_name(user_id, text) ==
    /\ FreeWorker
    /\ get_user_state(user_id) = WAITING_NAME
    /\ ALLOWED_USERS' = check_subscription(user_id)
    /\ LET name == Strip(text) IN
       IF Lower(name) = CANCEL_LOWER
       THEN CancelConv(user_id)
       ELSE IF Len(name) < MIN_NAME_LEN \/ Len(name) > MAX_NAME_LEN
       THEN UNCHANGED conv
       ELSE IF ~NameMatches(name)
       THEN UNCHANGED conv
       ELSE IF user_id \notin DOMAIN user_data
       THEN \* user_data[user_id] raises KeyError, caught at the end
            UNCHANGED conv
       ELSE /\ user_data' =
                DictSet(user_data, user_id, DictSet(user_data[user_id], "name", name))
            /\ user_states' = DictSet(user_states, user_id, WAITING_MEDIA)
    /\ UNCHANGED <<db, threads, out, keep_alive>>

\* a photo or video message of a user in WAITING_MEDIA; gateway_ok: the
\* messages the handler sends are delivered.  A message that fails leaves
\* the handler through an except clause: the one around the preview answers
\* and returns; the last one answers and then resets the conversation, so
\* that its reset is skipped when its answer fails too.
handle_media(user_id, media_type, file_id, gateway_ok) ==
    /\ FreeWorker
    /\ get_user_state(user_id) = WAITING_MEDIA
    /\ ALLOWED_USERS' = check_subscription(user_id)
    /\ LET bag == IF user_id \in DOMAIN user_data THEN user_data[user_id] ELSE EmptyDict
           stored == DictSet(DictSet(bag, "file_id", file_id), "media_type", media_type)
       IN
       IF "name" \notin DOMAIN bag
       THEN IF gateway_ok
            THEN /\ user_data' = DictSet(user_data, user_id, bag)
                 /\ user_states' = DictSet(user_states, user_id, START)
            ELSE \/ CancelConv(user_id)
                 \/ /\ user_data' = DictSet(user_data, user_id, bag)
                    /\ UNCHANGED user_states
       ELSE IF gateway_ok
       THEN /\ user_data' = DictSet(user_data, user_id,
                                    DictSet(stored, "preview_message_id", 1))
            /\ user_states' = DictSet(user_states, user_id, PREVIEW_SUBMISSION)
       ELSE \* the note after the preview fails
            \/ CancelConv(user_id)
            \* the preview fails
            \/ /\ user_data' = DictSet(user_data, user_id, stored)
               /\ UNCHANGED user_states
            \* the note after the preview and the answer of the last except
            \* clause fail
            \/ /\ user_data' = DictSet(user_data, user_id,
                                       DictSet(stored, "preview_message_id", 1))
               /\ UNCHANGED user_states
    /\ UNCHANGED <<db, threads, out, keep_alive>>

\* INSERT INTO suggestions (...) VALUES (?, ?, ?, ?, 'pending')
InsertSuggestion(name, file_id, media_type, user_id) ==
    Append(suggestions,
           [name |-> name, file_id |-> file_id, media_type |-> media_type,
            suggested_by |-> user_id, status |-> "pending"])

\* handle_preview_buttons whose send_proposal branch keeps the bag
handle_preview_buttons_keep(user_id, data, db_ok, gateway_ok) ==
    /\ FreeWorker
    /\ ALLOWED_USERS' = check_subscription(user_id)
    /\ IF user_id \notin DOMAIN user_data
       THEN UNCHANGED <<conv, db>>
       ELSE IF data \in {"edit_name", "edit_media"}
       THEN /\ IF gateway_ok
               THEN /\ user_states' = DictSet(user_states, user_id,
                            IF data = "edit_name" THEN WAITING_NAME ELSE WAITING_MEDIA)
                    /\ UNCHANGED user_data
               ELSE CancelConv(user_id)
            /\ UNCHANGED db
       ELSE IF data = "send_proposal"
       THEN LET bag == user_data[user_id] IN
            IF DOMAIN bag = {}
            THEN UNCHANGED <<conv, db>>
            ELSE IF ~({"name", "file_id", "media_type"} \subseteq DOMAIN bag)
            THEN UNCHANGED <<conv, db>>
            ELSE IF ~db_ok
            THEN \* rollback; when the answer about the error fails, the last
                 \* except clause answers and resets the conversation
                 /\ \/ UNCHANGED conv
                    \/ ~gateway_ok /\ CancelConv(user_id)
                 /\ UNCHANGED db
            ELSE /\ Len(suggestions) < MaxSuggestions
                 /\ suggestions' = InsertSuggestion(bag["name"], bag["file_id"],
                                                    bag["media_type"], user_id)
                 /\ user_states' = DictSet(user_states, user_id, START)
                 /\ UNCHANGED <<user_data, photos, photos_seq, created_from, user_votes,
                                tournament_settings>>
       ELSE \* cancel_proposal
            /\ CancelConv(user_id)
            /\ UNCHANGED db
    /\ UNCHANGED <<threads, out, keep_alive>>

\* the four buttons under the preview; db_ok: the INSERT and commit succeed;
\* gateway_ok: the messages and answers the handler sends are delivered
handle_preview_buttons(user_id, data, db_ok, gateway_ok) ==
    /\ FreeWorker
    /\ ALLOWED_USERS' = check_subscription(user_id)
    /\ IF user_id \notin DOMAIN user_data
       THEN UNCHANGED <<conv, db>>
       ELSE IF data \in {"edit_name", "edit_media"}
       THEN /\ IF gateway_ok
               THEN /\ user_states' = DictSet(user_states, user_id,
                            IF data = "edit_name" THEN WAITING_NAME ELSE WAITING_MEDIA)
                    /\ UNCHANGED user_data
               ELSE CancelConv(user_id)
            /\ UNCHANGED db
       ELSE IF data = "send_proposal"
       THEN LET bag == user_data[user_id] IN
            IF DOMAIN bag = {}
            THEN UNCHANGED <<conv, db>>
            ELSE IF ~({"name", "file_id", "media_type"} \subseteq DOMAIN bag)
            THEN UNCHANGED <<conv, db>>
            ELSE IF ~db_ok
            THEN \* rollback; when the answer about the error fails, the last
                 \* except clause answers and resets the conversation
                 /\ \/ UNCHANGED conv
                    \/ ~gateway_ok /\ CancelConv(user_id)
                 /\ UNCHANGED db
            ELSE /\ Len(suggestions) < MaxSuggestions
                 /\ suggestions' = InsertSuggestion(bag["name"], bag["file_id"],
                                                    bag["media_type"], user_id)
                 /\ CancelConv(user_id)
                 /\ UNCHANGED <<photos, photos_seq, created_from, user_votes,
                                tournament_settings>>
       ELSE \* cancel_proposal
            /\ CancelConv(user_id)
            /\ UNCHANGED db
    /\ UNCHANGED <<threads, out, keep_alive>>

(* ------------------------------------------------------------------ *)
(* Moderation workflow                                                *)
(* ------------------------------------------------------------------ *)
\* INSERT INTO photos (name, file_id, media_type, approved) VALUES (?, ?, ?, 1)
InsertPhoto(s) ==
    photos \cup {[id |-> photos_seq + 1, name |-> s.name, file_id |-> s.file_id,
                  media_type |-> s.media_type, approved |-> 1, votes |-> 0]}

\* UPDATE suggestions SET status = ? WHERE id = ?
SetSuggestionStatus(suggestion_id, status) ==
    [suggestions EXCEPT ![suggestion_id].status = status]

\* accept_suggestion_<id> / reject_suggestion_<id>, up to the status check:
\* the admin check and the SELECT of the suggestion
handle_suggestion_decision(user_id, action, suggestion_id) ==
    /\ FreeWorker
    /\ IF user_id # ADMIN_ID
       THEN /\ refused' = [user |-> user_id, op |-> "decide"]
            /\ UNCHANGED threads
       ELSE /\ UNCHANGED refused
            /\ IF suggestion_id \notin 1..Len(suggestions)
               THEN UNCHANGED threads
               ELSE IF suggestions[suggestion_id].status # "pending"
               THEN UNCHANGED threads
               ELSE Begin(Frame("decision_write", action, suggestion_id))
    /\ UNCHANGED <<conv, ALLOWED_USERS, db, seen, keep_alive>>

\* decision_write whose failed message undoes the decision
decision_write_undo(r, db_ok, gateway_ok) ==
    /\ r \in InFlight
    /\ r.pc = "decision_write"
    /\ IF ~db_ok \/ ~gateway_ok
       THEN UNCHANGED db
       ELSE IF r.act = "accept"
       THEN /\ photos' = InsertPhoto(suggestions[r.id])
            /\ photos_seq' = photos_seq + 1
            /\ created_from' = Append(created_from, r.id)
            /\ suggestions' = SetSuggestionStatus(r.id, "accepted")
            /\ UNCHANGED <<user_votes, tournament_settings>>
       ELSE /\ suggestions' = SetSuggestionStatus(r.id, "rejected")
            /\ UNCHANGED <<photos, photos_seq, created_from, user_votes,
                           tournament_settings>>
    /\ Finish(r)
    /\ UNCHANGED <<conv, ALLOWED_USERS, out, keep_alive>>

\* the rest of handle_suggestion_decision: the INSERT and UPDATE (accept) or
\* the UPDATE (reject) and the commit, then the messages to the submitter
\* and the administrator; db_ok: no sqlite3.Error is raised; gateway_ok: the
\* messages are delivered.  A failed message to the submitter is caught
\* where it is sent; any other failed message ends in the last except
\* clause, whose rollback finds the transaction committed.
decision_write(r, db_ok, gateway_ok) ==
    /\ r \in InFlight
    /\ r.pc = "decision_write"
    /\ IF ~db_ok
       THEN \* rollback
            UNCHANGED db
       ELSE IF r.act = "accept"
       THEN /\ photos' = InsertPhoto(suggestions[r.id])
            /\ photos_seq' = photos_seq + 1
            /\ created_from' = Append(created_from, r.id)
            /\ suggestions' = SetSuggestionStatus(r.id, "accepted")
            /\ UNCHANGED <<user_votes, tournament_settings>>
       ELSE /\ suggestions' = SetSuggestionStatus(r.id, "rejected")
            /\ UNCHANGED <<photos, photos_seq, created_from, user_votes,
                           tournament_settings>>
    /\ Finish(r)
    /\ UNCHANGED <<conv, ALLOWED_USERS, out, keep_alive>>

(* ------------------------------------------------------------------ *)
(* Tournament engine                                                  *)
(* ------------------------------------------------------------------ *)
\* stop_tournament's SELECT ... WHERE t.is_active = 1, fetchone(): the first row
FirstActiveTournament == CHOOSE t \in ActiveTournaments : \A o \in ActiveTournaments : t <= o

\* the buttons set_votes, set_time, start_tournament, stop_tournament, up to
\* the first SELECT of start_new_tournament / stop_tournament
handle_tournament_settings(user_id, data) ==
    /\ FreeWorker
    /\ refused' = IF user_id # ADMIN_ID
                  THEN [user |-> user_id, op |-> data]
                  ELSE refused
    /\ IF user_id # ADMIN_ID
       THEN UNCHANGED <<threads, user_states>>
       ELSE IF data = "set_votes"
       THEN /\ user_states' = DictSet(user_states, user_id, WAITING_VOTES_COUNT)
            /\ UNCHANGED threads
       ELSE IF data = "set_time"
       THEN /\ user_states' = DictSet(user_states, user_id, WAITING_TOURNAMENT_TIME)
            /\ UNCHANGED threads
       ELSE IF data = "start_tournament"
       THEN \* start_new_tournament: SELECT id ... WHERE is_active = 1
            /\ IF ActiveTournaments # {}
               THEN UNCHANGED threads
               ELSE Begin(Frame("start_count", "", 0))
            /\ UNCHANGED user_states
       ELSE \* stop_tournament
            /\ IF ActiveTournaments = {}
               THEN UNCHANGED threads
               ELSE Begin(Frame("stop_update", "", FirstActiveTournament))
            /\ UNCHANGED user_states
    /\ UNCHANGED <<user_data, ALLOWED_USERS, db, seen, keep_alive>>

\* start_new_tournament: SELECT COUNT(*) FROM photos WHERE approved = 1
start_count(r) ==
    /\ r \in InFlight
    /\ r.pc = "start_count"
    /\ IF Cardinality(ApprovedPhotos) < MIN_PARTICIPANTS
       THEN Finish(r)
       ELSE Move(r, Frame("start_insert", "", 0))
    /\ UNCHANGED <<conv, ALLOWED_USERS, db, out, keep_alive>>

\* start_new_tournament: the INSERT of the new active row and the commit
start_insert(r, db_ok) ==
    /\ r \in InFlight
    /\ r.pc = "start_insert"
    /\ IF ~db_ok
       THEN UNCHANGED tournament_settings
       ELSE /\ Len(tournament_settings) < MaxTournaments
            /\ tournament_settings' = Append(tournament_settings,
                   [required_votes |-> DEFAULT_REQUIRED_VOTES,
                    tournament_duration |-> DEFAULT_DURATION,
                    is_active |-> 1])
    /\ Finish(r)
    /\ UNCHANGED <<conv, ALLOWED_USERS, suggestions, photos, photos_seq, created_from,
                   user_votes, out, keep_alive>>

\* stop_tournament: UPDATE ... SET is_active = 0 WHERE id = ? and the commit
stop_update(r, db_ok) ==
    /\ r \in InFlight
    /\ r.pc = "stop_update"
    /\ IF ~db_ok
       THEN UNCHANGED tournament_settings
       ELSE tournament_settings' = [tournament_settings EXCEPT ![r.id].is_active = 0]
    /\ Finish(r)
    /\ UNCHANGED <<conv, ALLOWED_USERS, suggestions, photos, photos_seq, created_from,
                   user_votes, out, keep_alive>>

\* the case in which a vote is to be recorded: a tournament is active, the
\* contestant is there and approved, user_votes has no row of the pair
VoteDue(user_id, photo_id) ==
    /\ ActiveTournaments # {}
    /\ \E p \in ApprovedPhotos : p.id = photo_id
    /\ \A i \in 1..Len(user_votes) :
           ~(user_votes[i].user_id = user_id /\ user_votes[i].photo_id = photo_id)

\* INSERT INTO user_votes (user_id, photo_id) VALUES (?, ?)
VoteRow(user_id, photo_id) == [user_id |-> user_id, photo_id |-> photo_id]

\* UPDATE photos SET votes = votes + 1 WHERE id = ?
IncrementVotes(photo_id) ==
    {IF p.id = photo_id THEN [p EXCEPT !.votes = p.votes + 1] ELSE p : p \in photos}

\* handle_vote as it would be with the connection opened and the UPDATE
\* lowering the count
handle_vote_lowering(user_id, photo_id) ==
    /\ FreeWorker
    /\ ALLOWED_USERS' = check_subscription(user_id)
    /\ photos' = {IF p.id = photo_id THEN [p EXCEPT !.votes = p.votes - 1] ELSE p :
                    p \in photos}
    /\ last_vote' = [text |-> "ok", active |-> ActiveTournaments # {},
                     repeat |-> <<user_id, photo_id>> \in cast]
    /\ cast' = IF VoteDue(user_id, photo_id)
               THEN cast \cup {<<user_id, photo_id>>}
               ELSE cast
    /\ UNCHANGED <<conv, suggestions, photos_seq, created_from, user_votes,
                   tournament_settings, threads, last_pair, completion, refused, keep_alive>>

\* handle_vote as it would be with the connection opened and neither the
\* tournament check nor the duplicate check made: every press is recorded
handle_vote_unchecked(user_id, photo_id) ==
    /\ FreeWorker
    /\ ALLOWED_USERS' = check_subscription(user_id)
    /\ user_votes' = Append(user_votes, VoteRow(user_id, photo_id))
    /\ photos' = IncrementVotes(photo_id)
    /\ last_vote' = [text |-> "ok", active |-> ActiveTournaments # {},
                     repeat |-> <<user_id, photo_id>> \in cast]
    /\ cast' = IF VoteDue(user_id, photo_id)
               THEN cast \cup {<<user_id, photo_id>>}
               ELSE cast
    /\ UNCHANGED <<conv, suggestions, photos_seq, created_from, tournament_settings,
                   threads, last_pair, completion, refused, keep_alive>>

\* the button vote_<photo_id>: check_subscription records the user; then
\* sqlite3.connect(DB_NAME) raises NameError, as the module binds no DB_NAME;
\* the handler's last except clause answers with the error text, and no
\* statement of the handler reaches the database
handle_vote(user_id, photo_id) ==
    /\ FreeWorker
    /\ ALLOWED_USERS' = check_subscription(user_id)
    /\ last_vote' = [text |-> "error", active |-> ActiveTournaments # {},
                     repeat |-> <<user_id, photo_id>> \in cast]
    /\ cast' = IF VoteDue(user_id, photo_id)
               THEN cast \cup {<<user_id, photo_id>>}
               ELSE cast
    /\ UNCHANGED <<conv, db, threads, last_pair, completion, refused, keep_alive>>

\* the menu button "start voting", routed by handle_text: the SELECT of the
\* active tournament and the SELECT of up to two approved contestants the user
\* has no user_votes row for
Unvoted(user_id) ==
    {p \in ApprovedPhotos :
        \A i \in 1..Len(user_votes) :
            ~(user_votes[i].user_id = user_id /\ user_votes[i].photo_id = p.id)}

\* ORDER BY RANDOM() LIMIT 2: the results the query can give
RandomTwo(rows) ==
    IF Cardinality(rows) < 2
    THEN {rows}
    ELSE {pr \in SUBSET rows : Cardinality(pr) = 2}

\* start_voting with the test of the result's length off by one: a single
\* contestant left is presented too
start_voting_short(user_id) ==
    /\ FreeWorker
    /\ ALLOWED_USERS' = check_subscription(user_id)
    /\ IF ActiveTournaments = {}
       THEN last_pair' = [voter |-> user_id, ids |-> {}]
       ELSE \E participants \in RandomTwo(Unvoted(user_id)) :
                last_pair' = [voter |-> user_id,
                              ids |-> IF Cardinality(participants) < 1
                                      THEN {}
                                      ELSE {p.id : p \in participants}]
    /\ UNCHANGED <<conv, db, threads, last_vote, cast, completion, refused, keep_alive>>

start_voting(user_id) ==
    /\ FreeWorker
    /\ ALLOWED_USERS' = check_subscription(user_id)
    /\ IF ActiveTournaments = {}
       THEN last_pair' = [voter |-> user_id, ids |-> {}]
       ELSE \E participants \in RandomTwo(Unvoted(user_id)) :
                last_pair' = [voter |-> user_id,
                              ids |-> IF Cardinality(participants) < 2
                                      THEN {}
                                      ELSE {p.id : p \in participants}]
    /\ UNCHANGED <<conv, db, threads, last_vote, cast, completion, refused, keep_alive>>

\* check_tournament_completion's first SELECT: the (contestant, tournament)
\* pairs with the contestant approved, the tournament active and the
\* contestant's votes at the tournament's required_votes or above
CompletedPairs ==
    {pt \in ApprovedPhotos \X ActiveTournaments :
        pt[1].votes >= tournament_settings[pt[2]].required_votes}

\* ORDER BY p.votes DESC LIMIT 1 over the approved contestants: a row with
\* the most votes
TopVoted == {p \in ApprovedPhotos : \A q \in ApprovedPhotos : q.votes <= p.votes}

\* UPDATE tournament_settings SET is_active = 0 WHERE is_active = 1
DeactivateAll == [i \in 1..Len(tournament_settings) |->
                     [tournament_settings[i] EXCEPT !.is_active = 0]]

\* check_tournament_completion without its first SELECT: the winner is
\* looked up and announced on every call
check_tournament_completion_unguarded ==
    /\ FreeWorker
    /\ IF TopVoted # {}
       THEN \E winner \in TopVoted :
                /\ tournament_settings' = DeactivateAll
                /\ completion' = [tick |-> ~completion.tick,
                                  active |-> ActiveTournaments # {},
                                  rows |-> Len(tournament_settings),
                                  winner |-> winner.id]
       ELSE /\ UNCHANGED tournament_settings
            /\ completion' = [tick |-> ~completion.tick,
                              active |-> ActiveTournaments # {},
                              rows |-> Len(tournament_settings),
                              winner |-> 0]
    /\ UNCHANGED <<conv, ALLOWED_USERS, suggestions, photos, photos_seq, created_from,
                   user_votes, threads, last_vote, cast, last_pair, refused, keep_alive>>

\* check_tournament_completion, called on its own: the count of completed
\* pairs, and, if there is one, the winner, the UPDATE, the commit and the
\* announcement
check_tournament_completion ==
    /\ FreeWorker
    /\ IF CompletedPairs # {} /\ TopVoted # {}
       THEN \E winner \in TopVoted :
                /\ tournament_settings' = DeactivateAll
                /\ completion' = [tick |-> ~completion.tick,
                                  active |-> ActiveTournaments # {},
                                  rows |-> Len(tournament_settings),
                                  winner |-> winner.id]
       ELSE /\ UNCHANGED tournament_settings
            /\ completion' = [tick |-> ~completion.tick,
                              active |-> ActiveTournaments # {},
                              rows |-> Len(tournament_settings),
                              winner |-> 0]
    /\ UNCHANGED <<conv, ALLOWED_USERS, suggestions, photos, photos_seq, created_from,
                   user_votes, threads, last_vote, cast, last_pair, refused, keep_alive>>

\* handle_participant_deletion without the comparison with ADMIN_ID
handle_participant_deletion_open(user_id, participant_id) ==
    /\ FreeWorker
    /\ UNCHANGED refused
    /\ IF participant_id \notin PhotoIds
       THEN UNCHANGED threads
       ELSE Begin(Frame("delete_write", "", participant_id))
    /\ UNCHANGED <<conv, ALLOWED_USERS, db, seen, keep_alive>>

\* delete_participant_<id>, up to the SELECT of the participant's name
handle_participant_deletion(user_id, participant_id) ==
    /\ FreeWorker
    /\ IF user_id # ADMIN_ID
       THEN /\ refused' = [user |-> user_id, op |-> "delete"]
            /\ UNCHANGED threads
       ELSE /\ UNCHANGED refused
            /\ IF participant_id \notin PhotoIds
               THEN UNCHANGED threads
               ELSE Begin(Frame("delete_write", "", participant_id))
    /\ UNCHANGED <<conv, ALLOWED_USERS, db, seen, keep_alive>>

\* DELETE FROM user_votes WHERE photo_id = ?
DeleteVotesOf(participant_id) ==
    SelectSeq(user_votes, LAMBDA v : v.photo_id # participant_id)

\* delete_write ending the running tournament with the contestant's removal
delete_write_stop(r, db_ok) ==
    /\ r \in InFlight
    /\ r.pc = "delete_write"
    /\ IF ~db_ok
       THEN UNCHANGED <<user_votes, photos, tournament_settings>>
       ELSE /\ user_votes' = DeleteVotesOf(r.id)
            /\ photos' = {p \in photos : p.id # r.id}
            /\ tournament_settings' = DeactivateAll
    /\ Finish(r)
    /\ UNCHANGED <<conv, ALLOWED_USERS, suggestions, photos_seq, created_from, out, keep_alive>>

\* handle_participant_deletion: the two DELETEs and the commit
delete_write(r, db_ok) ==
    /\ r \in InFlight
    /\ r.pc = "delete_write"
    /\ IF ~db_ok
       THEN UNCHANGED <<user_votes, photos>>
       ELSE /\ user_votes' = DeleteVotesOf(r.id)
            /\ photos' = {p \in photos : p.id # r.id}
    /\ Finish(r)
    /\ UNCHANGED <<conv, ALLOWED_USERS, suggestions, photos_seq, created_from,
                   tournament_settings, out, keep_alive>>

(* ------------------------------------------------------------------ *)
(* Text messages: the commands, the menu captions and the texts that  *)
(* handle_text passes to handle_user_state                            *)
(* ------------------------------------------------------------------ *)
\* the captions handle_text compares message.text with
VOTING_BUTTON ==
    <<"MASKS", " ", "CYR_N", "cyr_a", "cyr_ch", "cyr_a", "cyr_t", "cyr_soft", " ", "cyr_g", "cyr_o", "cyr_l", "cyr_o", "cyr_s", "cyr_o", "cyr_v", "cyr_a", "cyr_n", "cyr_i", "cyr_e">>
TOP_BUTTON ==
    <<"TROPHY", " ", "CYR_T", "cyr_o", "cyr_p", " ", "cyr_u", "cyr_ch", "cyr_a", "cyr_s", "cyr_t", "cyr_n", "cyr_i", "cyr_c">>
TOP_PHOTO_BUTTON ==
    <<"CHART", " ", "CYR_T", "cyr_o", "cyr_p", " ", "cyr_f", "cyr_o", "cyr_t", "cyr_o">>
PROPOSE_BUTTON ==
    <<"PLUS_SIGN", " ", "CYR_P", "cyr_r", "cyr_e", "cyr_d", "cyr_l", "cyr_o", "cyr_zh", "cyr_i", "cyr_t", "cyr_soft", " ", "cyr_u", "cyr_ch", "cyr_a", "cyr_s", "cyr_t", "cyr_n", "cyr_i", "cyr_c", "cyr_u">>
ADMIN_BUTTON ==
    <<"CROWN", " ", "CYR_A", "cyr_d", "cyr_m", "cyr_i", "cyr_n", "-", "cyr_p", "cyr_a", "cyr_n", "cyr_e", "cyr_l", "cyr_soft">>
REPORT_BUTTON ==
    <<"WRENCH", " ", "CYR_S", "cyr_o", "cyr_o", "cyr_b", "cyr_sch", "cyr_i", "cyr_t", "cyr_soft", " ", "cyr_o", " ", "cyr_p", "cyr_o", "cyr_l", "cyr_o", "cyr_m", "cyr_k", "cyr_e">>

\* the captions whose handlers only display something
DisplayButtons == {TOP_BUTTON, TOP_PHOTO_BUTTON, ADMIN_BUTTON, REPORT_BUTTON}

\* the text up to its first whitespace character or "@"
RECURSIVE FirstWord(_)
FirstWord(t) ==
    IF t = <<>> \/ Head(t) \in Whitespace \/ Head(t) = "@"
    THEN <<>>
    ELSE <<Head(t)>> \o FirstWord(Tail(t))

\* the command a text message carries for a commands=[...] filter: the first
\* word without its "/" and without "@botname"; <<>> if the text is no command
Command(t) == IF t # <<>> /\ Head(t) = "/" THEN FirstWord(Tail(t)) ELSE <<>>

CMD_PROPOSE == <<"p", "r", "o", "p", "o", "s", "e">>
CMD_START == <<"s", "t", "a", "r", "t">>
CMD_ADMIN == <<"a", "d", "m", "i", "n">>
CMD_CANCEL == <<"c", "a", "n", "c", "e", "l">>

\* int(s) accepts: an optional sign, then digits with single underscores
\* between them
IsDigits(b) ==
    /\ b # <<>>
    /\ b[1] \in Digits
    /\ b[Len(b)] \in Digits
    /\ \A i \in 1..Len(b) : b[i] \in Digits \cup {"_"}
    /\ \A i \in 1..(Len(b) - 1) : ~(b[i] = "_" /\ b[i + 1] = "_")

IsInt(t) ==
    /\ t # <<>>
    /\ IF Head(t) \in {"-", "+"} THEN IsDigits(Tail(t)) ELSE IsDigits(t)

DigitValue(c) ==
    CASE c = "0" -> 0
      [] c = "1" -> 1
      [] c = "5" -> 5
      [] c = "6" -> 6
      [] c = "8" -> 8
      [] c = "9" -> 9

RECURSIVE DigitsValue(_)
DigitsValue(b) ==
    IF b = <<>>
    THEN 0
    ELSE IF b[Len(b)] = "_"
    THEN DigitsValue(SubSeq(b, 1, Len(b) - 1))
    ELSE 10 * DigitsValue(SubSeq(b, 1, Len(b) - 1)) + DigitValue(b[Len(b)])

\* int(s) of a text for which IsInt holds
IntValue(t) ==
    IF Head(t) = "-" THEN 0 - DigitsValue(Tail(t))
    ELSE IF Head(t) = "+" THEN DigitsValue(Tail(t))
    ELSE DigitsValue(t)

\* handle_user_state's ranges of the vote threshold and of the duration
MIN_VOTES_COUNT == 1
MAX_VOTES_COUNT == 1000
MIN_HOURS == 1
MAX_HOURS == 168

\* /start
start_command(user_id) ==
    /\ FreeWorker
    /\ ALLOWED_USERS' = ALLOWED_USERS \cup {user_id}
    /\ IF user_id \in DOMAIN user_states /\ user_states[user_id] # START
       THEN CancelConv(user_id)
       ELSE UNCHANGED conv
    /\ UNCHANGED <<db, threads, out, keep_alive>>

\* /admin: the panel is displayed to the administrator
admin_command(user_id) ==
    /\ FreeWorker
    /\ UNCHANGED vars

\* /cancel ending the conversation of every user
cancel_command_everyone(user_id) ==
    /\ FreeWorker
    /\ user_states' = [u \in DOMAIN user_states \cup {user_id} |-> START]
    /\ user_data' = EmptyDict
    /\ UNCHANGED <<ALLOWED_USERS, db, threads, out, keep_alive>>

\* /cancel: cancel_proposal
cancel_command(user_id) ==
    /\ FreeWorker
    /\ CancelConv(user_id)
    /\ UNCHANGED <<ALLOWED_USERS, db, threads, out, keep_alive>>

\* handle_user_state without the check of the threshold's range
handle_user_state_unranged(user_id, text) ==
    LET current_state == get_user_state(user_id)
        number == Strip(text)
    IN
    IF current_state = WAITING_NAME
    THEN handle_name(user_id, text)
    ELSE
    /\ FreeWorker
    /\ ALLOWED_USERS' = check_subscription(user_id)
    /\ IF current_state = WAITING_VOTES_COUNT
       THEN IF ~IsInt(number)
            THEN UNCHANGED conv
            ELSE /\ user_data' = DictSet(user_data, user_id,
                         DictSet(user_data[user_id], "votes_count", IntValue(number)))
                 /\ user_states' = DictSet(user_states, user_id, WAITING_TOURNAMENT_TIME)
       ELSE IF current_state = WAITING_TOURNAMENT_TIME
       THEN UNCHANGED conv
       ELSE /\ user_states' = DictSet(user_states, user_id, START)
            /\ UNCHANGED user_data
    /\ UNCHANGED <<db, threads, out, keep_alive>>

\* handle_user_state whose branch of the unknown state drops the bag too
handle_user_state_clearing(user_id, text) ==
    LET current_state == get_user_state(user_id)
        number == Strip(text)
    IN
    IF current_state = WAITING_NAME
    THEN handle_name(user_id, text)
    ELSE
    /\ FreeWorker
    /\ ALLOWED_USERS' = check_subscription(user_id)
    /\ IF current_state = WAITING_VOTES_COUNT
       THEN IF ~IsInt(number)
            THEN UNCHANGED conv
            ELSE IF IntValue(number) < MIN_VOTES_COUNT \/ IntValue(number) > MAX_VOTES_COUNT
            THEN UNCHANGED conv
            ELSE /\ user_data' = DictSet(user_data, user_id,
                         DictSet(user_data[user_id], "votes_count", IntValue(number)))
                 /\ user_states' = DictSet(user_states, user_id, WAITING_TOURNAMENT_TIME)
       ELSE IF current_state = WAITING_TOURNAMENT_TIME
       THEN UNCHANGED conv
       ELSE CancelConv(user_id)
    /\ UNCHANGED <<db, threads, out, keep_alive>>

\* handle_user_state, called by handle_text for a user with a state and a bag
handle_user_state(user_id, text) ==
    LET current_state == get_user_state(user_id)
        number == Strip(text)
    IN
    IF current_state = WAITING_NAME
    THEN handle_name(user_id, text)
    ELSE
    /\ FreeWorker
    /\ ALLOWED_USERS' = check_subscription(user_id)
    /\ IF current_state = WAITING_VOTES_COUNT
       THEN IF ~IsInt(number)
            THEN UNCHANGED conv
            ELSE IF IntValue(number) < MIN_VOTES_COUNT \/ IntValue(number) > MAX_VOTES_COUNT
            THEN UNCHANGED conv
            ELSE /\ user_data' = DictSet(user_data, user_id,
                         DictSet(user_data[user_id], "votes_count", IntValue(number)))
                 /\ user_states' = DictSet(user_states, user_id, WAITING_TOURNAMENT_TIME)
       ELSE IF current_state = WAITING_TOURNAMENT_TIME
       THEN \* a number in range: sqlite3.connect(DB_NAME) raises NameError,
            \* caught by the last except clause; otherwise the text is refused
            UNCHANGED conv
       ELSE \* any other state is an unknown one
            /\ user_states' = DictSet(user_states, user_id, START)
            /\ UNCHANGED user_data
    /\ UNCHANGED <<db, threads, out, keep_alive>>

\* the handler of every text message no earlier handler takes
handle_text(user_id, text) ==
    IF text = VOTING_BUTTON
    THEN start_voting(user_id)
    ELSE IF text = PROPOSE_BUTTON
    THEN start_proposal(user_id)
    ELSE IF /\ text \notin DisplayButtons
            /\ user_id \in DOMAIN user_states
            /\ user_id \in DOMAIN user_data
    THEN handle_user_state(user_id, text)
    ELSE /\ FreeWorker
         /\ ALLOWED_USERS' = check_subscription(user_id)
         /\ UNCHANGED <<conv, db, threads, out, keep_alive>>

\* a text message: the first handler, in the order of registration, whose
\* filter the message passes
text_message(user_id, text) ==
    IF Command(text) = CMD_PROPOSE
    THEN start_proposal(user_id)
    ELSE IF get_user_state(user_id) = WAITING_NAME
    THEN handle_name(user_id, text)
    ELSE IF Command(text) = CMD_START
    THEN start_command(user_id)
    ELSE IF Command(text) = CMD_ADMIN
    THEN admin_command(user_id)
    ELSE IF Command(text) = CMD_CANCEL
    THEN cancel_command(user_id)
    ELSE handle_text(user_id, text)

(* ------------------------------------------------------------------ *)
(* Specification: moderation, tournament and deletion on the worker   *)
(* threads, with the submissions that feed them                       *)
(* ------------------------------------------------------------------ *)
ANNA == <<"A", "n", "n", "a">>

SuggestionIds == 1..MaxSuggestions

\* the ids a delete or vote button can carry: a row there or gone, or none
ButtonPhotoIds == 1..(photos_seq + 1)

Next ==
    \/ \E u \in OtherUsers : start_proposal(u)
    \/ \E u \in OtherUsers : handle_name(u, ANNA)
    \/ \E u \in OtherUsers : handle_media(u, "photo", "file", TRUE)
    \/ \E u \in OtherUsers : handle_preview_buttons(u, "send_proposal", TRUE, TRUE)
    \/ \E u \in Users, a \in {"accept", "reject"}, s \in SuggestionIds :
           handle_suggestion_decision(u, a, s)
    \/ \E r \in InFlight, ok \in BOOLEAN, g \in BOOLEAN : decision_write(r, ok, g)
    \/ \E u \in Users, d \in {"start_tournament", "stop_tournament"} :
           handle_tournament_settings(u, d)
    \/ \E r \in InFlight : start_count(r)
    \/ \E r \in InFlight, ok \in BOOLEAN : start_insert(r, ok)
    \/ \E r \in InFlight, ok \in BOOLEAN : stop_update(r, ok)
    \/ \E u \in Users, p \in ButtonPhotoIds : handle_participant_deletion(u, p)
    \/ \E r \in InFlight, ok \in BOOLEAN : delete_write(r, ok)

Spec == Init /\ [][Next]_vars

(* ------------------------------------------------------------------ *)
(* Specification: voting.  It starts where MIN_PARTICIPANTS           *)
(* suggestions have been submitted and accepted, a state of Spec      *)
(* (AfterAcceptance is reached there).                                *)
(* ------------------------------------------------------------------ *)
AcceptedSuggestion ==
    [name |-> ANNA, file_id |-> "file", media_type |-> "photo",
     suggested_by |-> 1, status |-> "accepted"]

AfterAcceptance ==
    /\ user_states = [u \in {1} |-> START]
    /\ user_data = EmptyDict
    /\ ALLOWED_USERS = {ADMIN_ID, 1}
    /\ suggestions = [i \in 1..MIN_PARTICIPANTS |-> AcceptedSuggestion]
    /\ photos = {[id |-> i, name |-> ANNA, file_id |-> "file", media_type |-> "photo",
                  approved |-> 1, votes |-> 0] : i \in 1..MIN_PARTICIPANTS}
    /\ photos_seq = MIN_PARTICIPANTS
    /\ created_from = [i \in 1..MIN_PARTICIPANTS |-> i]
    /\ user_votes = <<>>
    /\ tournament_settings = <<>>
    /\ threads = EmptyBag

InitVote ==
    /\ AfterAcceptance
    /\ last_vote = NoVote
    /\ cast = {}
    /\ last_pair = NoPair
    /\ completion = NoCompletion
    /\ refused = NoRefusal
    /\ NotStarted

NextVote ==
    \/ \E u \in Users, p \in ButtonPhotoIds : handle_vote(u, p)
    \/ \E u \in Users, d \in {"start_tournament", "stop_tournament"} :
           handle_tournament_settings(u, d)
    \/ \E r \in InFlight : start_count(r)
    \/ \E r \in InFlight, ok \in BOOLEAN : start_insert(r, ok)
    \/ \E r \in InFlight, ok \in BOOLEAN : stop_update(r, ok)
    \/ \E u \in Users, p \in ButtonPhotoIds : handle_participant_deletion(u, p)
    \/ \E r \in InFlight, ok \in BOOLEAN : delete_write(r, ok)

SpecVote == InitVote /\ [][NextVote]_vars


\* the voters whose vote callbacks for contestant photo_id were due
VotersOf(photo_id) == {pr[1] : pr \in {x \in cast : x[2] = photo_id}}

(* A tournament's worth of voters: DEFAULT_REQUIRED_VOTES users press the  *)
(* vote button of contestant 1, each new voter after the ones before, while *)
(* the administrator starts and stops tournaments.                          *)
Voters == 1..DEFAULT_REQUIRED_VOTES

InitWin == InitVote

NextWin ==
    \/ \E u \in Voters :
           /\ u <= Cardinality(VotersOf(1)) + 1
           /\ handle_vote(u, 1)
    \/ \E d \in {"start_tournament", "stop_tournament"} :
           handle_tournament_settings(ADMIN_ID, d)
    \/ \E r \in InFlight : start_count(r)
    \/ \E r \in InFlight, ok \in BOOLEAN : start_insert(r, ok)
    \/ \E r \in InFlight, ok \in BOOLEAN : stop_update(r, ok)

SpecWin == InitWin /\ [][NextWin]_vars

(* ------------------------------------------------------------------ *)
(* Specification: pairing.  Users ask for a pair to vote on while the  *)
(* administrator runs tournaments and deletes contestants.            *)
(* ------------------------------------------------------------------ *)
NextPair ==
    \/ \E u \in Users : start_voting(u)
    \/ \E d \in {"start_tournament", "stop_tournament"} :
           handle_tournament_settings(ADMIN_ID, d)
    \/ \E r \in InFlight : start_count(r)
    \/ \E r \in InFlight, ok \in BOOLEAN : start_insert(r, ok)
    \/ \E r \in InFlight, ok \in BOOLEAN : stop_update(r, ok)
    \/ \E p \in ButtonPhotoIds : handle_participant_deletion(ADMIN_ID, p)
    \/ \E r \in InFlight, ok \in BOOLEAN : delete_write(r, ok)

SpecPair == InitVote /\ [][NextPair]_vars

(* ------------------------------------------------------------------ *)
(* Specification: check_tournament_completion called on its own at any *)
(* moment of the tournaments the administrator runs.                  *)
(* ------------------------------------------------------------------ *)
NextCompletion ==
    \/ check_tournament_completion
    \/ \E d \in {"start_tournament", "stop_tournament"} :
           handle_tournament_settings(ADMIN_ID, d)
    \/ \E r \in InFlight : start_count(r)
    \/ \E r \in InFlight, ok \in BOOLEAN : start_insert(r, ok)
    \/ \E r \in InFlight, ok \in BOOLEAN : stop_update(r, ok)
    \/ \E p \in ButtonPhotoIds : handle_participant_deletion(ADMIN_ID, p)
    \/ \E r \in InFlight, ok \in BOOLEAN : delete_write(r, ok)

SpecCompletion == InitVote /\ [][NextCompletion]_vars

(* ------------------------------------------------------------------ *)
(* Specification: the administrator's buttons pressed by everybody.   *)
(* It starts where one suggestion has been accepted and a second one  *)
(* submitted, a state of Spec.                                        *)
(* ------------------------------------------------------------------ *)
PendingSuggestion == [AcceptedSuggestion EXCEPT !.status = "pending"]

AfterSecondSubmission ==
    /\ user_states = [u \in {1} |-> START]
    /\ user_data = EmptyDict
    /\ ALLOWED_USERS = {ADMIN_ID, 1}
    /\ suggestions = <<AcceptedSuggestion, PendingSuggestion>>
    /\ photos = {[id |-> 1, name |-> ANNA, file_id |-> "file", media_type |-> "photo",
                  approved |-> 1, votes |-> 0]}
    /\ photos_seq = 1
    /\ created_from = <<1>>
    /\ user_votes = <<>>
    /\ tournament_settings = <<>>
    /\ threads = EmptyBag

InitAdmin ==
    /\ AfterSecondSubmission
    /\ last_vote = NoVote
    /\ cast = {}
    /\ last_pair = NoPair
    /\ completion = NoCompletion
    /\ refused = NoRefusal
    /\ NotStarted

SettingsButtons == {"set_votes", "set_time", "start_tournament", "stop_tournament"}

NextAdmin ==
    \/ \E u \in Users, a \in {"accept", "reject"}, s \in SuggestionIds :
           handle_suggestion_decision(u, a, s)
    \/ \E r \in InFlight, ok \in BOOLEAN, g \in BOOLEAN : decision_write(r, ok, g)
    \/ \E u \in Users, d \in SettingsButtons : handle_tournament_settings(u, d)
    \/ \E r \in InFlight : start_count(r)
    \/ \E r \in InFlight, ok \in BOOLEAN : start_insert(r, ok)
    \/ \E r \in InFlight, ok \in BOOLEAN : stop_update(r, ok)
    \/ \E u \in Users, p \in ButtonPhotoIds : handle_participant_deletion(u, p)
    \/ \E r \in InFlight, ok \in BOOLEAN : delete_write(r, ok)

SpecAdmin == InitAdmin /\ [][NextAdmin]_vars

(* ------------------------------------------------------------------ *)
(* Specification: the conversations.  A user sends texts and media and *)
(* presses the preview's buttons; the administrator presses the two    *)
(* configuration buttons and sends texts.                              *)
(* ------------------------------------------------------------------ *)
\* names: one with whitespace around it, the shortest and longest the length
\* check lets through, one too short, one too long, one with a character
\* outside the class
PADDED_ANNA == <<" ">> \o ANNA \o <<"TAB">>
SHORTEST == <<"CYR_A", "-">>
LONGEST == [i \in 1..MAX_NAME_LEN |-> "a"]
PADDED_LONGEST == LONGEST \o <<" ">>
SPACE_LETTER == <<" ", "a">>
ONE_LETTER == <<"a">>
TOO_LONG == [i \in 1..(MAX_NAME_LEN + 1) |-> "a"]
UNDERSCORED == <<"A", "n", "_", "a">>

\* "❌ Отмена", the caption of the cancel button
CANCEL_BUTTON == <<"X_MARK", " ", "CYR_O", "cyr_t", "cyr_m", "cyr_e", "cyr_n", "cyr_a">>

Texts ==
    {ANNA, PADDED_ANNA, SHORTEST, LONGEST, PADDED_LONGEST, SPACE_LETTER, ONE_LETTER,
     TOO_LONG, UNDERSCORED, CANCEL_BUTTON, PROPOSE_BUTTON,
     <<"/">> \o CMD_PROPOSE, <<"/">> \o CMD_START, <<"/">> \o CMD_ADMIN,
     <<"/">> \o CMD_CANCEL, <<"5">>, <<"0">>}

\* the texts the administrator sends
AdminTexts == {ANNA, CANCEL_BUTTON, <<"/">> \o CMD_START, <<"/">> \o CMD_CANCEL, <<"5">>,
               <<"0">>}

\* the user who proposes
Proposer == CHOOSE u \in OtherUsers : TRUE

PreviewButtons == {"edit_name", "edit_media", "send_proposal", "cancel_proposal"}

NextConv ==
    \/ \E t \in Texts : text_message(Proposer, t)
    \/ \E t \in AdminTexts : text_message(ADMIN_ID, t)
    \/ \E m \in {"photo", "video"}, ok \in BOOLEAN :
           handle_media(Proposer, m, "file", ok)
    \/ \E d \in PreviewButtons, db_ok \in BOOLEAN, ok \in BOOLEAN :
           handle_preview_buttons(Proposer, d, db_ok, ok)
    \/ \E d \in {"set_votes", "set_time"} : handle_tournament_settings(ADMIN_ID, d)

SpecConv == Init /\ [][NextConv]_vars

\* the proposal conversation of one user sending photos: every text of
\* Texts, a photo, and the three buttons of the preview
NextName ==
    \/ \E t \in Texts : text_message(Proposer, t)
    \/ \E ok \in BOOLEAN : handle_media(Proposer, "photo", "file", ok)
    \/ \E d \in PreviewButtons, db_ok \in BOOLEAN, ok \in BOOLEAN :
           handle_preview_buttons(Proposer, d, db_ok, ok)

SpecName == Init /\ [][NextName]_vars

(* ------------------------------------------------------------------ *)
(* Claims                                                             *)
(* ------------------------------------------------------------------ *)
\* the number of photos rows ever inserted from suggestion s
CreatedCount(s) == Cardinality({i \in 1..Len(created_from) : created_from[i] = s})

HasVoteRow(user_id, photo_id) ==
    \E i \in 1..Len(user_votes) : user_votes[i] = VoteRow(user_id, photo_id)

\* C1: at most one tournament_settings row is active in every reachable
\* state, under every interleaving of the start and stop handlers.
C1_TournamentSingleton == Cardinality(ActiveTournaments) <= 1

\* C2: user_votes holds at most one row for each (voter, contestant) pair,
\* also after the same voter pressed the same vote button twice.
C2_VoteUniqueness ==
    \A i, j \in 1..Len(user_votes) :
        (/\ user_votes[i].user_id = user_votes[j].user_id
         /\ user_votes[i].photo_id = user_votes[j].photo_id) => i = j

\* a vote button pressed again by the same voter for the same contestant,
\* a tournament being active both times
C2_Witness == last_vote.repeat /\ last_vote.active /\ last_vote.text # "none"

\* C3: a vote callback repeated by the same voter for the same contestant
\* during a tournament is answered as already voted.
C3_DuplicateVoteRejected ==
    (last_vote.repeat /\ last_vote.active) => last_vote.text = "already voted"

\* C4: accepting the same suggestion twice, one after the other or
\* overlapping, creates one contestant, not two.
C4_AcceptOnce == \A s \in 1..Len(suggestions) : CreatedCount(s) <= 1

\* C5: a suggestion's status, once accepted or rejected, never changes again.
C5_StatusOneWay ==
    [][\A s \in 1..Len(suggestions) :
          suggestions[s].status # "pending"
              => suggestions'[s].status = suggestions[s].status]_vars

\* C6: the contestants ever created from a suggestion number 1 if it is
\* accepted and 0 if it is pending or rejected.
C6_AcceptAtomic ==
    \A s \in 1..Len(suggestions) :
        CreatedCount(s) = IF suggestions[s].status = "accepted" THEN 1 ELSE 0

\* C7: every due vote callback (tournament active, contestant approved, no
\* row of the pair yet) has added its row to user_votes and 1 to the
\* contestant's count: a contestant's count is the number of such voters.
C7_SuccessfulVote ==
    \A p \in photos :
        /\ p.votes = Cardinality(VotersOf(p.id))
        /\ \A u \in VotersOf(p.id) : HasVoteRow(u, p.id)

\* C8: a step taken with no tournament active adds no row to user_votes and
\* raises no contestant's count, and a vote callback handled with no
\* tournament active is not answered as recorded.
C8_NoVoteWithoutTournament ==
    [][/\ ActiveTournaments = {} =>
            /\ \A i \in 1..Len(user_votes') :
                   \E j \in 1..Len(user_votes) : user_votes'[i] = user_votes[j]
            /\ \A q \in photos' : \A p \in photos : q.id = p.id => q.votes <= p.votes
       /\ ~last_vote'.active => last_vote'.text # "ok"]_vars

\* a vote callback was handled with no tournament active
C8_Witness == last_vote.text = "error" /\ ~last_vote.active

\* the number of voters in the set c of due vote callbacks for photo_id
DueVotes(c, photo_id) == Cardinality({x \in c : x[2] = photo_id})

\* C9: the due vote that brings a contestant to the active tournament's
\* required_votes leaves no tournament active.
C9_WinCondition ==
    [][\A p \in PhotoIds : \A t \in ActiveTournaments :
          (/\ DueVotes(cast, p) < tournament_settings[t].required_votes
           /\ DueVotes(cast', p) >= tournament_settings[t].required_votes)
              => ActiveTournaments' = {}]_vars

\* C11: a call of check_tournament_completion made while no tournament is
\* active changes no table and announces no winner, also when it is made
\* again after the tournament was deactivated.
C11_CompletionIdempotent ==
    [][(completion' # completion /\ ActiveTournaments = {})
          => (UNCHANGED db /\ completion'.winner = 0)]_vars

\* check_tournament_completion has been called after a tournament was
\* started and deactivated
C11_Witness == completion.tick /\ ~completion.active /\ completion.rows >= 1

\* C12: a start that commits a new tournament_settings row does so only
\* while no tournament is active, and adds exactly one row, active, leaving
\* the other tables as they are.
C12_StartContract ==
    [][Len(tournament_settings') > Len(tournament_settings) =>
          /\ ActiveTournaments = {}
          /\ Len(tournament_settings') = Len(tournament_settings) + 1
          /\ tournament_settings'[Len(tournament_settings')].is_active = 1
          /\ UNCHANGED <<suggestions, photos, user_votes>>]_vars

\* C13: a stop that deactivates a tournament leaves no tournament active and
\* leaves the contestants, their counts and the votes as they are.
C13_StopContract ==
    [][(\E t \in ActiveTournaments : tournament_settings'[t].is_active = 0) =>
          /\ ActiveTournaments' = {}
          /\ UNCHANGED <<photos, user_votes>>]_vars

\* C14: what start_voting presents is two distinct approved contestants for
\* neither of whom the voter has a user_votes row, and it presents nothing to
\* a voter with fewer than two such contestants left.
C14_Pairing ==
    [][last_pair' # last_pair =>
          LET ids == last_pair'.ids
              u == last_pair'.voter
          IN /\ ids # {} =>
                    /\ Cardinality(ids) = 2
                    /\ \A i \in ids :
                           /\ \E p \in ApprovedPhotos : p.id = i
                           /\ ~HasVoteRow(u, i)
             /\ Cardinality(Unvoted(u)) < 2 => ids = {}]_vars

\* a pair has been presented
C14_Witness == Cardinality(last_pair.ids) = 2 /\ last_pair.voter \in Users

\* C15: the removal of a contestant leaves tournament_settings as it is and
\* leaves no user_votes row of the contestant, and no pair presented
\* afterwards holds a contestant that is gone.
C15_DeletionCascade ==
    [][/\ \A p \in PhotoIds :
             p \notin PhotoIds' =>
                 /\ tournament_settings' = tournament_settings
                 /\ \A i \in 1..Len(user_votes') : user_votes'[i].photo_id # p
       /\ last_pair' # last_pair => last_pair'.ids \subseteq PhotoIds]_vars

\* a contestant that had been presented for voting was removed while the
\* one tournament there has been is still active
C15_Witness ==
    /\ \E p \in last_pair.ids : p \notin PhotoIds
    /\ Len(tournament_settings) = 1
    /\ ActiveTournaments = {1}

\* C16: the accept/reject, delete and tournament-settings callbacks of a user
\* other than ADMIN_ID change no table and no conversation state and start
\* no work.
C16_AdminOnly ==
    [][\A u \in OtherUsers :
          /\ \A a \in {"accept", "reject"}, s \in SuggestionIds :
                 handle_suggestion_decision(u, a, s) => UNCHANGED <<db, conv, threads>>
          /\ \A p \in ButtonPhotoIds :
                 handle_participant_deletion(u, p) => UNCHANGED <<db, conv, threads>>
          /\ \A d \in SettingsButtons :
                 handle_tournament_settings(u, d) => UNCHANGED <<db, conv, threads>>]_vars

\* a user other than the administrator pressed a decision button of a
\* suggestion that is pending
C16_Witness ==
    /\ refused.user \in OtherUsers
    /\ refused.op = "decide"
    /\ \E s \in 1..Len(suggestions) : suggestions[s].status = "pending"

(* ------------------------------------------------------------------ *)
(* Claims about the submission conversation                           *)
(* ------------------------------------------------------------------ *)
\* the rule of a name as the specification words it: length 2 to 50, every
\* character a letter, a digit, white space or a hyphen
ValidName(name) ==
    /\ Len(name) >= MIN_NAME_LEN
    /\ Len(name) <= MAX_NAME_LEN
    /\ NameMatches(name)

\* the name in the bag of user u, <<>> when there is none
BagName(u) ==
    IF u \in DOMAIN user_data /\ "name" \in DOMAIN user_data[u]
    THEN user_data[u]["name"]
    ELSE <<>>

\* a step that persists suggestions
Persists == suggestions' # suggestions

FullBag(u) ==
    /\ u \in DOMAIN user_data
    /\ {"name", "file_id", "media_type"} \subseteq DOMAIN user_data[u]

\* C19: the send_proposal button, pressed in PREVIEW_SUBMISSION with a bag
\* holding name, file_id and media_type, the INSERT and its commit
\* succeeding, appends exactly one suggestion: pending, with the bag's name,
\* file_id and media_type and the presser as suggested_by; no other row
\* changes; the bag is dropped and the user is in START.  And suggestions
\* are persisted by no other step.
C19_ConfirmSend ==
    [][/\ \A u \in Users : \A ok \in BOOLEAN :
            (/\ get_user_state(u) = PREVIEW_SUBMISSION
             /\ FullBag(u)
             /\ handle_preview_buttons(u, "send_proposal", TRUE, ok))
                => /\ suggestions' = Append(suggestions,
                          [name |-> user_data[u]["name"],
                           file_id |-> user_data[u]["file_id"],
                           media_type |-> user_data[u]["media_type"],
                           suggested_by |-> u,
                           status |-> "pending"])
                   /\ u \notin DOMAIN user_data'
                   /\ user_states'[u] = START
                   /\ UNCHANGED <<photos, photos_seq, user_votes, tournament_settings>>
       /\ Persists
            => \E u \in Users :
                   /\ FullBag(u)
                   /\ Len(suggestions') = Len(suggestions) + 1
                   /\ SubSeq(suggestions', 1, Len(suggestions)) = suggestions
                   /\ suggestions'[Len(suggestions')].suggested_by = u
                   /\ u \notin DOMAIN user_data'
                   /\ user_states'[u] = START]_vars

\* a video was proposed and sent: its suggestion is pending, the bag is gone
\* and the submitter is in START
C19_Witness ==
    /\ Len(suggestions) >= 1
    /\ suggestions[Len(suggestions)] =
           [name |-> ANNA, file_id |-> "file", media_type |-> "video",
            suggested_by |-> Proposer, status |-> "pending"]
    /\ Proposer \notin DOMAIN user_data
    /\ get_user_state(Proposer) = START

\* the states of a conversation in progress
ConversationStates ==
    {WAITING_NAME, WAITING_MEDIA, PREVIEW_SUBMISSION, WAITING_VOTES_COUNT,
     WAITING_TOURNAMENT_TIME}

\* the texts that ask for cancellation: the /cancel command and the caption
\* of the cancel button
CancelTexts == {<<"/">> \o CMD_CANCEL, CANCEL_BUTTON}

\* C20: the cancel button of the preview pressed in PREVIEW_SUBMISSION, and
\* the /cancel command or the cancel text sent in any state of a
\* conversation, drop the user's bag and leave the user in START.
C20_CancelAnywhere ==
    [][\A u \in Users :
          /\ \A db_ok \in BOOLEAN, ok \in BOOLEAN :
                (/\ get_user_state(u) = PREVIEW_SUBMISSION
                 /\ handle_preview_buttons(u, "cancel_proposal", db_ok, ok))
                    => /\ get_user_state(u)' = START
                       /\ u \notin DOMAIN user_data'
          /\ \A t \in CancelTexts :
                (/\ get_user_state(u) \in ConversationStates
                 /\ text_message(u, t))
                    => /\ get_user_state(u)' = START
                       /\ u \notin DOMAIN user_data']_vars

\* the texts that are the propose command
ProposeTexts == {t \in Texts : Command(t) = CMD_PROPOSE}

\* C21: /propose sent by a user in START sets the user's bag to the empty
\* bag and the state to WAITING_NAME; sent in any other state it leaves the
\* states and the bags as they are; it never touches the repository.
C21_Propose ==
    [][\A u \in Users : \A t \in ProposeTexts :
          text_message(u, t)
              => /\ get_user_state(u) = START
                    => /\ user_states'[u] = WAITING_NAME
                       /\ user_data'[u] = EmptyDict
                       /\ \A v \in Users \ {u} :
                             /\ get_user_state(v)' = get_user_state(v)
                             /\ (v \in DOMAIN user_data') = (v \in DOMAIN user_data)
                 /\ get_user_state(u) # START => UNCHANGED <<user_states, user_data>>
                 /\ UNCHANGED db]_vars

\* a second proposal is begun after the first was sent: the bag is empty
\* again and the name is awaited
C21_Witness ==
    /\ Len(suggestions) = 1
    /\ get_user_state(Proposer) = WAITING_NAME
    /\ Proposer \in DOMAIN user_data
    /\ user_data[Proposer] = EmptyDict

\* C22: the edit_name button pressed in PREVIEW_SUBMISSION moves the user
\* to WAITING_NAME and the edit_media button to WAITING_MEDIA; neither
\* changes the suggestions and both leave the bag as it is.
C22_EditActions ==
    [][\A u \in Users : \A d \in {"edit_name", "edit_media"} :
          \A db_ok \in BOOLEAN, ok \in BOOLEAN :
             (/\ get_user_state(u) = PREVIEW_SUBMISSION
              /\ FullBag(u)
              /\ handle_preview_buttons(u, d, db_ok, ok))
                 => /\ user_states'[u] =
                          IF d = "edit_name" THEN WAITING_NAME ELSE WAITING_MEDIA
                    /\ UNCHANGED <<user_data, suggestions>>]_vars

\* C23: a photo or video received with no name in the bag, and a button of
\* the preview pressed with the bag missing or lacking name, file_id or
\* media_type, leave the user in START and the suggestions as they are.
C23_InconsistencyForcesIdle ==
    [][\A u \in Users :
          /\ \A m \in {"photo", "video"}, ok \in BOOLEAN :
                (/\ get_user_state(u) = WAITING_MEDIA
                 /\ BagName(u) = <<>>
                 /\ handle_media(u, m, "file", ok))
                    => /\ get_user_state(u)' = START
                       /\ UNCHANGED suggestions
          /\ \A d \in PreviewButtons, db_ok \in BOOLEAN, ok \in BOOLEAN :
                (/\ ~FullBag(u)
                 /\ handle_preview_buttons(u, d, db_ok, ok))
                    => /\ get_user_state(u)' = START
                       /\ UNCHANGED suggestions]_vars

(* ------------------------------------------------------------------ *)
(* Specification: submission and moderation with the gateway failing  *)
(* in every message sent after a commit.                              *)
(* ------------------------------------------------------------------ *)
NextNotify ==
    \/ start_proposal(Proposer)
    \/ handle_name(Proposer, ANNA)
    \/ \E m \in {"photo", "video"} : handle_media(Proposer, m, "file", TRUE)
    \/ \E db_ok \in BOOLEAN : handle_preview_buttons(Proposer, "send_proposal", db_ok, FALSE)
    \/ \E a \in {"accept", "reject"}, s \in SuggestionIds :
           handle_suggestion_decision(ADMIN_ID, a, s)
    \/ \E r \in InFlight, db_ok \in BOOLEAN : decision_write(r, db_ok, FALSE)

SpecNotify == Init /\ [][NextNotify]_vars

\* the contestants created from suggestion s
CreatedFrom(s) == {i \in DOMAIN created_from : created_from[i] = s}

\* C24: a message that fails after a commit undoes nothing.  The
\* send_proposal button whose INSERT commits and whose messages fail leaves
\* the new suggestion pending, the bag dropped and the user in START; a
\* decision whose UPDATE commits and whose messages fail leaves the new
\* status and, for an accept, the contestant created.  (No vote is ever
\* committed by handle_vote, so no message follows one.)
C24_GatewayFailureKeepsCommit ==
    [][/\ \A u \in Users :
            (FullBag(u) /\ handle_preview_buttons(u, "send_proposal", TRUE, FALSE))
                => /\ suggestions' = Append(suggestions,
                          [name |-> user_data[u]["name"],
                           file_id |-> user_data[u]["file_id"],
                           media_type |-> user_data[u]["media_type"],
                           suggested_by |-> u,
                           status |-> "pending"])
                   /\ u \notin DOMAIN user_data'
                   /\ user_states'[u] = START
       /\ \A r \in InFlight :
            decision_write(r, TRUE, FALSE)
                => /\ suggestions'[r.id].status =
                         IF r.act = "accept" THEN "accepted" ELSE "rejected"
                   /\ r.act = "accept"
                         => \E p \in photos' \ photos :
                               /\ p.approved = 1
                               /\ p.name = suggestions[r.id].name
                               /\ created_from'[p.id] = r.id]_vars

\* with every message after a commit failing, one suggestion was accepted
\* and its contestant exists, another was rejected, and the submitter is in
\* START without a bag
C24_Witness ==
    /\ Len(suggestions) = 2
    /\ \E a, b \in DOMAIN suggestions :
          /\ suggestions[a].status = "accepted"
          /\ \E p \in photos : created_from[p.id] = a
          /\ suggestions[b].status = "rejected"
    /\ get_user_state(Proposer) = START
    /\ Proposer \notin DOMAIN user_data

\* C25: when the INSERT of send_proposal or its commit fails, the
\* suggestions are as before, the user is still in PREVIEW_SUBMISSION and
\* the bag is as it was.
C25_StorageError ==
    [][\A u \in Users : \A ok \in BOOLEAN :
          (/\ get_user_state(u) = PREVIEW_SUBMISSION
           /\ FullBag(u)
           /\ handle_preview_buttons(u, "send_proposal", FALSE, ok))
              => /\ UNCHANGED <<suggestions, user_data>>
                 /\ get_user_state(u)' = PREVIEW_SUBMISSION]_vars

(* ------------------------------------------------------------------ *)
(* Specification: the administrator configures, starts and stops the  *)
(* tournament, with two approved contestants present.                 *)
(* ------------------------------------------------------------------ *)
FIVE == <<"5">>
PADDED_FIFTEEN == <<" ", "1", "5", " ">>
THOUSAND == <<"1", "0", "0", "0">>
THOUSAND_ONE == <<"1", "0", "0", "1">>
WEEK_HOURS == <<"1", "6", "8">>
WEEK_HOURS_ONE == <<"1", "6", "9">>
ZERO == <<"0">>

\* the texts the administrator sends while configuring
ConfigTexts ==
    {<<"/">> \o CMD_PROPOSE, <<"/">> \o CMD_CANCEL, ANNA, FIVE, PADDED_FIFTEEN, THOUSAND,
     THOUSAND_ONE, WEEK_HOURS, WEEK_HOURS_ONE, ZERO}

NextConfig ==
    \/ \E t \in ConfigTexts : text_message(ADMIN_ID, t)
    \/ \E d \in SettingsButtons : handle_tournament_settings(ADMIN_ID, d)
    \/ \E r \in InFlight : start_count(r)
    \/ \E r \in InFlight, ok \in BOOLEAN : start_insert(r, ok)
    \/ \E r \in InFlight, ok \in BOOLEAN : stop_update(r, ok)

SpecConfig == InitVote /\ [][NextConfig]_vars

\* the texts int() reads as a number of lo..hi
NumbersIn(lo, hi) ==
    {t \in ConfigTexts :
        IsInt(Strip(t)) /\ IntValue(Strip(t)) >= lo /\ IntValue(Strip(t)) <= hi}

\* the administrator has a state and a bag, so that handle_text passes the
\* administrator's texts to handle_user_state
AdminHasBag == ADMIN_ID \in DOMAIN user_states /\ ADMIN_ID \in DOMAIN user_data

\* C26: for the administrator with a bag, the set_votes button pressed in
\* START leads to WAITING_VOTES_COUNT; every number of 1..1000 sent there
\* is recorded in the bag and leads to WAITING_TOURNAMENT_TIME; every
\* number of 1..168 sent there leads to START; and the administrator is in
\* WAITING_TOURNAMENT_TIME only with a recorded threshold.
C26_ConfigFlow ==
    /\ (AdminHasBag /\ FreeWorker /\ get_user_state(ADMIN_ID) = START)
          => ENABLED (/\ handle_tournament_settings(ADMIN_ID, "set_votes")
                      /\ user_states'[ADMIN_ID] = WAITING_VOTES_COUNT)
    /\ (AdminHasBag /\ FreeWorker /\ get_user_state(ADMIN_ID) = WAITING_VOTES_COUNT)
          => \A t \in NumbersIn(MIN_VOTES_COUNT, MAX_VOTES_COUNT) :
                ENABLED (/\ text_message(ADMIN_ID, t)
                         /\ user_states'[ADMIN_ID] = WAITING_TOURNAMENT_TIME
                         /\ user_data'[ADMIN_ID]["votes_count"] = IntValue(Strip(t)))
    /\ (AdminHasBag /\ FreeWorker /\ get_user_state(ADMIN_ID) = WAITING_TOURNAMENT_TIME)
          => \A t \in NumbersIn(MIN_HOURS, MAX_HOURS) :
                ENABLED (/\ text_message(ADMIN_ID, t)
                         /\ user_states'[ADMIN_ID] = START)
    /\ get_user_state(ADMIN_ID) = WAITING_TOURNAMENT_TIME
          => /\ ADMIN_ID \in DOMAIN user_data
             /\ "votes_count" \in DOMAIN user_data[ADMIN_ID]

\* the texts that are no /start and no /cancel command
DataTexts == {t \in ConfigTexts : Command(t) \notin {CMD_START, CMD_CANCEL}}

C28_ConfigCompletion ==
    (/\ AdminHasBag
     /\ FreeWorker
     /\ get_user_state(ADMIN_ID) = WAITING_TOURNAMENT_TIME
     /\ "votes_count" \in DOMAIN user_data[ADMIN_ID])
        => \A t \in NumbersIn(MIN_HOURS, MAX_HOURS) :
              ENABLED (/\ text_message(ADMIN_ID, t)
                       /\ Len(tournament_settings') = Len(tournament_settings)
                       /\ \A i \in DOMAIN tournament_settings :
                             tournament_settings'[i] =
                                 IF tournament_settings[i].is_active = 1
                                 THEN [required_votes |-> user_data[ADMIN_ID]["votes_count"],
                                       tournament_duration |-> IntValue(Strip(t)),
                                       is_active |-> 1]
                                 ELSE tournament_settings[i])

(* ------------------------------------------------------------------ *)
(* Specification: the proposer and the administrator both converse.   *)
(* ------------------------------------------------------------------ *)
\* the texts the two users send
BothTexts == {<<"/">> \o CMD_PROPOSE, <<"/">> \o CMD_CANCEL, ANNA, FIVE}

\* a message or a button press of user u, as the conversation handlers
\* take it
ActsInConversation(u) ==
    \/ \E t \in BothTexts : text_message(u, t)
    \/ \E ok \in BOOLEAN : handle_media(u, "photo", "file", ok)
    \/ \E d \in PreviewButtons, ok \in BOOLEAN : handle_preview_buttons(u, d, TRUE, ok)
    \/ handle_tournament_settings(u, "set_votes")

NextBoth == \E u \in {Proposer, ADMIN_ID} : ActsInConversation(u)

SpecBoth == Init /\ [][NextBoth]_vars

\* the state and the bag of user v are as before
SameConversation(v) ==
    /\ get_user_state(v)' = get_user_state(v)
    /\ (v \in DOMAIN user_data') = (v \in DOMAIN user_data)
    /\ v \in DOMAIN user_data => user_data'[v] = user_data[v]

\* C29: a message or a button press of one user leaves the state and the
\* bag of every other user as they are.
C29_PerUserIndependence ==
    [][\A u \in Users :
          ActsInConversation(u) => \A v \in Users \ {u} : SameConversation(v)]_vars

\* two conversations are in progress at once: the proposer looks at the
\* preview while the administrator is asked for the threshold
C29_Witness ==
    /\ get_user_state(Proposer) = PREVIEW_SUBMISSION
    /\ FullBag(Proposer)
    /\ get_user_state(ADMIN_ID) = WAITING_VOTES_COUNT

\* C30: no contestant has a count below 0, and while a tournament is
\* active no step lowers the count of a contestant that remains.
C30_VotesMonotone ==
    /\ [](\A p \in photos : p.votes >= 0)
    /\ [][ActiveTournaments # {}
            => \A p \in photos : \A q \in photos' :
                   q.id = p.id => q.votes >= p.votes]_vars

\* during a tournament a vote button was pressed and a contestant removed;
\* the contestant that remains has its count
C30_Witness ==
    /\ ActiveTournaments # {}
    /\ last_vote.text # "none"
    /\ last_vote.active
    /\ Cardinality(photos) = 1
    /\ \A p \in photos : p.votes >= 0

(* ------------------------------------------------------------------ *)
(* Specification: the life of a tournament.  One user submits and     *)
(* votes, the administrator moderates, starts and stops tournaments   *)
(* and deletes contestants.  It starts where a first suggestion has   *)
(* been accepted, a state of Spec.                                    *)
(* ------------------------------------------------------------------ *)
AfterFirstAcceptance ==
    /\ user_states = [u \in {1} |-> START]
    /\ user_data = EmptyDict
    /\ ALLOWED_USERS = {ADMIN_ID, 1}
    /\ suggestions = <<AcceptedSuggestion>>
    /\ photos = {[id |-> 1, name |-> ANNA, file_id |-> "file", media_type |-> "photo",
                  approved |-> 1, votes |-> 0]}
    /\ photos_seq = 1
    /\ created_from = <<1>>
    /\ user_votes = <<>>
    /\ tournament_settings = <<>>
    /\ threads = EmptyBag

InitExpiry ==
    /\ AfterFirstAcceptance
    /\ last_vote = NoVote
    /\ cast = {}
    /\ last_pair = NoPair
    /\ completion = NoCompletion
    /\ refused = NoRefusal
    /\ NotStarted

NextExpiry ==
    \/ start_proposal(Proposer)
    \/ handle_name(Proposer, ANNA)
    \/ handle_media(Proposer, "photo", "file", TRUE)
    \/ handle_preview_buttons(Proposer, "send_proposal", TRUE, TRUE)
    \/ \E a \in {"accept", "reject"}, s \in SuggestionIds :
           handle_suggestion_decision(ADMIN_ID, a, s)
    \/ \E r \in InFlight, ok \in BOOLEAN : decision_write(r, ok, TRUE)
    \/ \E d \in {"start_tournament", "stop_tournament"} :
           handle_tournament_settings(ADMIN_ID, d)
    \/ \E r \in InFlight : start_count(r)
    \/ \E r \in InFlight, ok \in BOOLEAN : start_insert(r, ok)
    \/ \E r \in InFlight, ok \in BOOLEAN : stop_update(r, ok)
    \/ handle_vote(Proposer, 1)
    \/ handle_participant_deletion(ADMIN_ID, 1)
    \/ \E r \in InFlight, ok \in BOOLEAN : delete_write(r, ok)

SpecExpiry == InitExpiry /\ [][NextExpiry]_vars

\* C31: a tournament stops being active only in the UPDATE of
\* stop_tournament; every other step (a vote, a decision on a suggestion, a
\* deletion, a submission, the start of a tournament) leaves the active flag
\* and the recorded duration of every tournament as they are, and no row of
\* tournament_settings is removed.
C31_NoAutomaticExpiry ==
    [][/\ Len(tournament_settings') >= Len(tournament_settings)
       /\ \A i \in 1..Len(tournament_settings) :
            /\ tournament_settings'[i].tournament_duration
                   = tournament_settings[i].tournament_duration
            /\ tournament_settings'[i].is_active # tournament_settings[i].is_active
                   => /\ tournament_settings[i].is_active = 1
                      /\ \E r \in InFlight :
                             /\ r.pc = "stop_update"
                             /\ r.id = i
                             /\ stop_update(r, TRUE)]_vars

\* a first tournament was stopped, and in the second one, still active, the
\* user's vote was due and a contestant has been deleted
C31_Witness ==
    /\ \E i \in 1..Len(tournament_settings) : tournament_settings[i].is_active = 0
    /\ ActiveTournaments # {}
    /\ cast # {}
    /\ Cardinality(photos) < photos_seq

\* the rows of user_votes that name contestant photo_id
VotesFor(photo_id) == {i \in 1..Len(user_votes) : user_votes[i].photo_id = photo_id}

\* C32: in every state the vote count of each contestant is the number of
\* rows of user_votes that name the contestant.
C32_CounterConsistency ==
    \A p \in photos : p.votes = Cardinality(VotesFor(p.id))

\* two different users have pressed the vote button of the same contestant
\* with a tournament active, and a contestant has been removed
C32_Witness ==
    /\ \E p \in PhotoIds : Cardinality(VotersOf(p)) >= 2
    /\ Cardinality(photos) < photos_seq

\* C34: every row of user_votes names a contestant that is present and
\* approved.
C34_NoOrphanVotes ==
    \A i \in 1..Len(user_votes) :
        \E p \in ApprovedPhotos : p.id = user_votes[i].photo_id

\* a user's vote for a contestant was due, and the contestant has since been
\* removed while a tournament is active
C34_Witness ==
    /\ \E pr \in cast : pr[2] \notin PhotoIds
    /\ ActiveTournaments # {}

(* ------------------------------------------------------------------ *)
(* Specification: the messages and presses of one user handled on the *)
(* worker threads at once.  handle_media and the send_proposal branch *)
(* of handle_preview_buttons pause where they call the gateway, and   *)
(* the other worker runs meanwhile.                                   *)
(* ------------------------------------------------------------------ *)
\* handle_media up to the sending of the preview: the bag is created if
\* absent; without a name the state is reset; else file_id and media_type
\* are stored
media_store(user_id, media_type, file_id) ==
    /\ FreeWorker
    /\ get_user_state(user_id) = WAITING_MEDIA
    /\ ALLOWED_USERS' = check_subscription(user_id)
    /\ LET bag == IF user_id \in DOMAIN user_data THEN user_data[user_id] ELSE EmptyDict
           stored == DictSet(DictSet(bag, "file_id", file_id), "media_type", media_type)
       IN
       IF "name" \notin DOMAIN bag
       THEN /\ user_data' = DictSet(user_data, user_id, bag)
            /\ user_states' = DictSet(user_states, user_id, START)
            /\ UNCHANGED threads
       ELSE /\ user_data' = DictSet(user_data, user_id, stored)
            /\ UNCHANGED user_states
            /\ Begin(Frame("media_preview", "", user_id))
    /\ UNCHANGED <<db, out, keep_alive>>

\* handle_media after the preview was sent: the preview's message id is
\* stored in the bag; with the bag gone the KeyError is caught by the clause
\* around the sending and the handler returns
media_preview(r) ==
    /\ r \in InFlight
    /\ r.pc = "media_preview"
    /\ IF r.id \notin DOMAIN user_data
       THEN /\ UNCHANGED user_data
            /\ Finish(r)
       ELSE /\ user_data' = DictSet(user_data, r.id,
                                    DictSet(user_data[r.id], "preview_message_id", 1))
            /\ Move(r, Frame("media_state", "", r.id))
    /\ UNCHANGED <<user_states, ALLOWED_USERS, db, out, keep_alive>>

\* handle_media after the note under the preview was sent: set_user_state
media_state(r) ==
    /\ r \in InFlight
    /\ r.pc = "media_state"
    /\ user_states' = DictSet(user_states, r.id, PREVIEW_SUBMISSION)
    /\ Finish(r)
    /\ UNCHANGED <<user_data, ALLOWED_USERS, db, out, keep_alive>>

\* the send_proposal button up to the commit of the INSERT
proposal_insert(user_id, db_ok) ==
    /\ FreeWorker
    /\ ALLOWED_USERS' = check_subscription(user_id)
    /\ IF \/ ~FullBag(user_id)
          \/ ~db_ok
       THEN UNCHANGED <<db, threads>>
       ELSE /\ Len(suggestions) < MaxSuggestions
            /\ suggestions' = InsertSuggestion(user_data[user_id]["name"],
                                               user_data[user_id]["file_id"],
                                               user_data[user_id]["media_type"], user_id)
            /\ Begin(Frame("proposal_reset", "", user_id))
            /\ UNCHANGED <<photos, photos_seq, created_from, user_votes,
                           tournament_settings>>
    /\ UNCHANGED <<conv, out, keep_alive>>

\* the send_proposal button after the administrator was notified: the state
\* is reset and the bag dropped
proposal_reset(r) ==
    /\ r \in InFlight
    /\ r.pc = "proposal_reset"
    /\ CancelConv(r.id)
    /\ Finish(r)
    /\ UNCHANGED <<ALLOWED_USERS, db, out, keep_alive>>

NextOverlap ==
    \/ start_proposal(Proposer)
    \/ \E t \in {ANNA, SHORTEST} : handle_name(Proposer, t)
    \/ \E m \in {"photo", "video"} : media_store(Proposer, m, "file")
    \/ \E r \in InFlight : media_preview(r)
    \/ \E r \in InFlight : media_state(r)
    \/ \E ok \in BOOLEAN : proposal_insert(Proposer, ok)
    \/ \E r \in InFlight : proposal_reset(r)
    \/ cancel_command(Proposer)

SpecOverlap == Init /\ [][NextOverlap]_vars

\* C35: a user in WAITING_NAME, WAITING_MEDIA or PREVIEW_SUBMISSION has a bag,
\* and the bag of a user in PREVIEW_SUBMISSION holds name, file_id and
\* media_type.
C35_StateImpliesBag ==
    \A u \in Users :
        /\ get_user_state(u) \in {WAITING_NAME, WAITING_MEDIA, PREVIEW_SUBMISSION}
               => u \in DOMAIN user_data
        /\ get_user_state(u) = PREVIEW_SUBMISSION => FullBag(u)

\* C36: a suggestion is persisted only by a user in PREVIEW_SUBMISSION, and
\* a press of send_proposal, edit_name or edit_media by a user in START,
\* WAITING_NAME or WAITING_MEDIA, the gateway and the database working,
\* changes neither the conversations nor the tables.
C36_ConfirmOnlyInPreview ==
    [][/\ Persists =>
              get_user_state(suggestions'[Len(suggestions')].suggested_by)
                  = PREVIEW_SUBMISSION
       /\ \A u \in Users, d \in {"send_proposal", "edit_name", "edit_media"} :
              (/\ get_user_state(u) \in {START, WAITING_NAME, WAITING_MEDIA}
               /\ handle_preview_buttons(u, d, TRUE, TRUE))
                  => UNCHANGED <<conv, db>>]_vars

\* the captions of the menu buttons handle_text knows
MenuCaptions == {VOTING_BUTTON, PROPOSE_BUTTON} \cup DisplayButtons

\* the texts that are neither a command nor a caption of the menu
PlainTexts == {t \in Texts : Head(t) # "/" /\ t \notin MenuCaptions}

\* C39: a text that is neither a command nor a menu caption, sent in
\* WAITING_MEDIA or PREVIEW_SUBMISSION, leaves the user in START with the
\* bag as it was, and writes no table.
C39_TextResetsKeepingBag ==
    [][\A u \in Users : \A t \in PlainTexts :
          (/\ get_user_state(u) \in {WAITING_MEDIA, PREVIEW_SUBMISSION}
           /\ text_message(u, t))
              => /\ user_states'[u] = START
                 /\ u \in DOMAIN user_data
                 /\ user_data' = user_data
                 /\ UNCHANGED db]_vars

\* the user is back in START with the bag of the preview still there
C39_Witness ==
    /\ get_user_state(Proposer) = START
    /\ FullBag(Proposer)
    /\ "preview_message_id" \in DOMAIN user_data[Proposer]

\* C37: a press of send_proposal persists nothing while an earlier press of
\* the same user on the same preview, whose INSERT is committed, has not
\* yet reset the conversation; so the presses on one preview persist at most
\* one suggestion.
C37_DoubleConfirmSend ==
    [][Persists =>
          \A r \in InFlight :
              ~(/\ r.pc = "proposal_reset"
                /\ r.id = suggestions'[Len(suggestions')].suggested_by)]_vars

\* "/start"
START_TEXT == <<"/">> \o CMD_START

\* C38: /start sent in any state of a conversation leaves the user in START
\* with no bag.
C38_StartResets ==
    \A u \in Users :
        (FreeWorker /\ get_user_state(u) \in ConversationStates)
            => ~ENABLED (/\ text_message(u, START_TEXT)
                         /\ ~(/\ get_user_state(u)' = START
                              /\ u \notin DOMAIN user_data'))

(* ------------------------------------------------------------------ *)
(* The keep-alive service (keep_alive.py): start() and stop() called  *)
(* one after the other by one caller, and the threads running         *)
(* _keep_alive_task.                                                  *)
(* ------------------------------------------------------------------ *)
\* the threads start() may create in one behaviour
MaxLoops == 3

\* thread.join(timeout=5), in seconds
JOIN_TIMEOUT == 5
\* time.sleep(600 + random.randint(-120, 120)), in seconds
SLEEP_SECONDS == 600
SLEEP_SPREAD == 120
\* requests.get(full_url, timeout=10), in seconds
PING_TIMEOUT == 10

\* the bot's part of the state, which the service does not touch
bot_vars == <<conv, ALLOWED_USERS, db, threads, out>>

\* self.thread: the thread created last, 0 for None
thread == Len(tasks)

\* the threads that are inside the body of the while loop
Executing == {i \in 1..Len(tasks) : tasks[i] \in {"ping", "sleep"}}

\* thread.is_alive()
is_alive(i) == tasks[i] # "done"

\* whether a thread at this place can stay there for longer than the join
\* waits: a ping waits for its answer up to PING_TIMEOUT, a sleep lasts
\* SLEEP_SECONDS - SLEEP_SPREAD at least
Outlasts(pc) ==
    \/ pc = "ping" /\ PING_TIMEOUT > JOIN_TIMEOUT
    \/ pc = "sleep" /\ SLEEP_SECONDS - SLEEP_SPREAD > JOIN_TIMEOUT

\* KeepAliveService.start
start ==
    /\ ~joining
    /\ IF is_running
       THEN UNCHANGED <<is_running, tasks>>
       ELSE /\ Len(tasks) < MaxLoops
            /\ is_running' = TRUE
            /\ tasks' = Append(tasks, "test")
    /\ UNCHANGED <<joining, bot_vars>>

\* KeepAliveService.stop up to the join
stop ==
    /\ ~joining
    /\ is_running' = FALSE
    /\ joining' = (thread # 0 /\ is_alive(thread))
    /\ UNCHANGED <<tasks, bot_vars>>

\* KeepAliveService.stop: the join returns, the thread having ended or the
\* timeout having passed
stop_return ==
    /\ joining
    /\ \/ ~is_alive(thread)
       \/ Outlasts(tasks[thread])
    /\ joining' = FALSE
    /\ UNCHANGED <<is_running, tasks, bot_vars>>

\* _keep_alive_task: the test of "while self.is_running"
task_test(i) ==
    /\ tasks[i] = "test"
    /\ tasks' = [tasks EXCEPT ![i] = IF is_running THEN "ping" ELSE "done"]
    /\ UNCHANGED <<is_running, joining, bot_vars>>

\* _keep_alive_task: the pings of one round are over, the thread sleeps
task_ping(i) ==
    /\ tasks[i] = "ping"
    /\ tasks' = [tasks EXCEPT ![i] = "sleep"]
    /\ UNCHANGED <<is_running, joining, bot_vars>>

\* _keep_alive_task: time.sleep returns
task_sleep(i) ==
    /\ tasks[i] = "sleep"
    /\ tasks' = [tasks EXCEPT ![i] = "test"]
    /\ UNCHANGED <<is_running, joining, bot_vars>>

NextKeepAlive ==
    \/ start
    \/ stop
    \/ stop_return
    \/ \E i \in 1..Len(tasks) : task_test(i)
    \/ \E i \in 1..Len(tasks) : task_ping(i)
    \/ \E i \in 1..Len(tasks) : task_sleep(i)

SpecKeepAlive == Init /\ [][NextKeepAlive]_vars

\* C40: at most one thread is inside the loop of _keep_alive_task, whatever
\* calls of start() and stop() were made.
C40_SingleLoop == Cardinality(Executing) <= 1

====
